---------------------------- MODULE Spec2Model ----------------------------
(***************************************************************************)
(* Model of the local logic of line-parking-bot-v2:                        *)
(*   - filter_conversation (src/agent/chatbot.py), the conversation-turn   *)
(*     compactor, as the loop it is, one iteration per step;               *)
(*   - find_nearby_toilets (src/main.py), the nearest-restroom selector;   *)
(*   - the /callback webhook and its two event handlers (src/main.py),     *)
(*     one action per handled event;                                       *)
(*   - the background worker pool, call_llm and the session identifier     *)
(*     (src/main.py, src/utils/utils.py);                                  *)
(*   - find_parking of the parking tool provider                           *)
(*     (src/parking_mcp_server/parking_mcp.py);                            *)
(*   - handle_location on concurrent request threads, and the background   *)
(*     task process_and_push_text (src/main.py).                           *)
(* Python indices are 0-based; sequences here are 1-based, so the message  *)
(* at Python index i is messages[i + 1].                                   *)
(***************************************************************************)
EXTENDS Integers, Sequences, FiniteSets, TLC

VARIABLES
    messages,       \* filter_conversation: the list passed in
    current_index,  \* 0-based index of the next message the for loop visits
    current_chunk,  \* the chunk being accumulated
    result,         \* the list being built / returned
    pc,             \* "idle" | "loop" | "done"
    pass,           \* 1: call on the input, 2: call on the first call's output
    first_result,   \* what the first call returned (kept for the second call)
    closed_at,      \* 0-based indices at which the turn-end branch was taken
    toilet_df,      \* the restroom table loaded at start-up
    query,          \* arguments of the last find_nearby_toilets call
    nearby,         \* rows returned by the last find_nearby_toilets call
    tpc,            \* "idle" | "ready" | "returned"
    sheet,          \* the ratings sheet: connected or None, rows appended
    user_state,     \* user id -> "absent" | "None" | awaiting value
    user_location,  \* user id -> <<>> (no entry) | stored <<lat, lon>>
    user_selected_toilet,  \* user id -> "absent" | "None" | selected toilet
    http,           \* the /callback request in progress and its response
    handled,        \* what the last handled event did (calls, outcome)
    executor,       \* the worker pool: queue, running and finished tasks
    llm,            \* call_llm: the upstream outcome and what it returned
    session,        \* two events and the identifiers derived from them
    parking,        \* find_parking: environment, upstream and outcome
    threads,        \* handle_location calls in progress, one per delivery
    task            \* one process_and_push_text task and what it did

vars == <<messages, current_index, current_chunk, result, pc, pass,
          first_result, closed_at, toilet_df, query, nearby, tpc,
          sheet, user_state, user_location, user_selected_toilet, http,
          handled, executor, llm, session, parking, threads, task>>

filterVars == <<messages, current_index, current_chunk, result, pc, pass,
                first_result, closed_at>>

toiletVars == <<toilet_df, query, nearby, tpc>>

botVars == <<sheet, user_state, user_location, user_selected_toilet, http,
             handled>>

\* Everything outside filter_conversation and find_nearby_toilets
serviceVars == <<botVars, executor, llm, session, parking, threads, task>>

-----------------------------------------------------------------------------
(* Bounds *)

MaxLen == 5

MaxRows == 3      \* rows of the restroom table

MaxCoord == 2     \* latitudes 0..MaxCoord, in whole degrees

MaxTopN == 2      \* requested counts 0..MaxTopN

MaxEvents == 2    \* events in one webhook request

MaxAppends == 1   \* rows appended to the ratings sheet

MaxTasks == 10    \* tasks submitted to the worker pool

MaxTextLen == 3   \* characters of a model response body

TicksPerHour == 2 \* timestamp ticks in one hour

SessionHours == 4 \* consecutive hours the event timestamps span

MaxCarParks == 2  \* off-street records in an upstream answer

MaxSegments == 1  \* on-street records in an upstream answer

MaxDeliveries == 2 \* webhook deliveries handled at the same time

MaxAnswerLen == 4 \* characters of a model answer handed to the task

Users == {"U1"}

-----------------------------------------------------------------------------
(* Values of the parts a specification does not exercise *)

BotIdle ==
    /\ sheet = [available |-> FALSE, rows |-> 0]
    /\ user_state = [u \in Users |-> "absent"]
    /\ user_location = [u \in Users |-> <<>>]
    /\ user_selected_toilet = [u \in Users |-> "absent"]
    /\ http = [phase |-> "idle"]
    /\ handled = [kind |-> "none"]

PoolIdle == executor = [queue |-> <<>>, running |-> {}, done |-> {}]

LlmIdle == llm = [pc |-> "idle"]

SessionIdle == session = [pc |-> "idle"]

ParkingIdle == parking = [pc |-> "idle"]

ThreadsIdle == threads = <<>>

TaskIdle == task = [pc |-> "idle"]

ServicesIdle ==
    /\ BotIdle /\ PoolIdle /\ LlmIdle /\ SessionIdle /\ ParkingIdle
    /\ ThreadsIdle /\ TaskIdle

-----------------------------------------------------------------------------
(* Messages *)

\* The message classes and the fields _is_conversation_turn_end looks at:
\* the class, whether tool_calls is non-empty, and the "is_reflect" entry
\* of additional_kwargs (absent, False or True).
MsgKinds ==
    { [type |-> "human", tool_calls |-> 0, is_reflect |-> r] :
          r \in {"absent", "false", "true"} }
    \cup { [type |-> "ai", tool_calls |-> n, is_reflect |-> "absent"] :
          n \in {0, 1} }
    \cup { [type |-> "tool", tool_calls |-> 0, is_reflect |-> "absent"] }

\* A message object: its kind plus its identity (the position it had in the
\* list first passed in).
Msg(k, i) ==
    [type |-> k.type, tool_calls |-> k.tool_calls,
     is_reflect |-> k.is_reflect, id |-> i]

\* additional_kwargs.get("is_reflect", False), taken as a truth value
IsReflect(m) == m.is_reflect = "true"

\* Variant: a tool-calling assistant message may end a turn
TurnEndIgnoringToolCalls(current_msg, msgs, index) ==
    IF current_msg.type # "ai"
    THEN FALSE
    ELSE LET next_index == index + 1 IN
         IF next_index >= Len(msgs)
         THEN FALSE
         ELSE LET next_msg == msgs[next_index + 1] IN
              next_msg.type = "human" /\ ~IsReflect(next_msg)

\* Variant: the is_reflect marker of the next message is not consulted
TurnEndIgnoringReflect(current_msg, msgs, index) ==
    IF current_msg.type # "ai" \/ current_msg.tool_calls > 0
    THEN FALSE
    ELSE LET next_index == index + 1 IN
         IF next_index >= Len(msgs)
         THEN FALSE
         ELSE LET next_msg == msgs[next_index + 1] IN
              next_msg.type = "human"

\* Variant: the class of the next message is not consulted
TurnEndIgnoringNextClass(current_msg, msgs, index) ==
    IF current_msg.type # "ai" \/ current_msg.tool_calls > 0
    THEN FALSE
    ELSE LET next_index == index + 1 IN
         IF next_index >= Len(msgs)
         THEN FALSE
         ELSE LET next_msg == msgs[next_index + 1] IN
              ~IsReflect(next_msg)

_is_conversation_turn_end(current_msg, msgs, index) ==
    IF current_msg.type # "ai" \/ current_msg.tool_calls > 0
    THEN FALSE
    ELSE LET next_index == index + 1 IN
         IF next_index >= Len(msgs)
         THEN FALSE
         ELSE LET next_msg == msgs[next_index + 1] IN
              next_msg.type = "human" /\ ~IsReflect(next_msg)

\* Variant: the first two messages of the chunk instead of first and last
ChunkFirstTwo(chunk) ==
    IF Len(chunk) >= 2 THEN <<chunk[1], chunk[2]>> ELSE <<chunk[1], chunk[1]>>

\* Variant: last before first
ChunkEndsSwapped(chunk) == <<chunk[Len(chunk)], chunk[1]>>

\* result.extend([current_chunk[0], current_chunk[-1]])
ChunkEnds(chunk) == <<chunk[1], chunk[Len(chunk)]>>

\* Variant: an open chunk is compacted like a closed one
FlushOpenChunkCompacted(res, chunk) ==
    IF chunk # <<>> THEN res \o <<chunk[1], chunk[Len(chunk)]>> ELSE res

\* if current_chunk: result.extend(current_chunk)
FlushOpenChunk(res, chunk) ==
    IF chunk # <<>> THEN res \o chunk ELSE res

-----------------------------------------------------------------------------
(* filter_conversation *)

FilterIdleToilets ==
    /\ toilet_df = <<>>
    /\ query = [lat |-> 0, lon |-> 0, top_n |-> 0]
    /\ nearby = <<>>
    /\ tpc = "idle"

InitFilter ==
    /\ \E n \in 0..MaxLen :
         \E k \in [1..n -> MsgKinds] :
            messages = [i \in 1..n |-> Msg(k[i], i)]
    /\ current_index = 0
    /\ current_chunk = <<>>
    /\ result = <<>>
    /\ pc = "loop"
    /\ pass = 1
    /\ first_result = <<>>
    /\ closed_at = {}
    /\ FilterIdleToilets
    /\ ServicesIdle

\* One iteration of "for current_index, current_msg in enumerate(messages)"
LoopBody ==
    /\ pc = "loop"
    /\ current_index < Len(messages)
    /\ LET current_msg == messages[current_index + 1]
           chunk == Append(current_chunk, current_msg)
       IN  IF _is_conversation_turn_end(current_msg, messages, current_index)
           THEN /\ result' = result \o ChunkEnds(chunk)
                /\ current_chunk' = <<>>
                /\ closed_at' = closed_at \cup {current_index}
           ELSE /\ current_chunk' = chunk
                /\ UNCHANGED <<result, closed_at>>
    /\ current_index' = current_index + 1
    /\ UNCHANGED <<messages, pc, pass, first_result>>
    /\ UNCHANGED toiletVars
    /\ UNCHANGED serviceVars

\* Loop exhausted: "if current_chunk: result.extend(current_chunk)"; return
LoopExit ==
    /\ pc = "loop"
    /\ current_index = Len(messages)
    /\ result' = FlushOpenChunk(result, current_chunk)
    /\ pc' = "done"
    /\ UNCHANGED <<messages, current_index, current_chunk, pass,
                   first_result, closed_at>>
    /\ UNCHANGED toiletVars
    /\ UNCHANGED serviceVars

\* The returned list is passed to filter_conversation again
Refilter ==
    /\ pc = "done"
    /\ pass = 1
    /\ messages' = result
    /\ first_result' = result
    /\ current_index' = 0
    /\ current_chunk' = <<>>
    /\ result' = <<>>
    /\ closed_at' = {}
    /\ pc' = "loop"
    /\ pass' = 2
    /\ UNCHANGED toiletVars
    /\ UNCHANGED serviceVars

NextFilter == LoopBody \/ LoopExit \/ Refilter

SpecFilter == InitFilter /\ [][NextFilter]_vars

-----------------------------------------------------------------------------
(* find_nearby_toilets *)

R == 6371

\* Metres per degree of arc: R * 1000 * pi / 180, pi taken as 3.14159
MetresPerDegree == (R * 314159) \div 18000

Abs(x) == IF x < 0 THEN -x ELSE x

\* haversine on points of one meridian (lon1 = lon2, the grid used here):
\* dlon = 0 gives a = sin(dlat/2)^2 and c = |dlat| in radians, so the value
\* is R * 1000 * |dlat| * pi / 180, here in whole metres.
haversine(lat1, lon1, lat2, lon2) == MetresPerDegree * Abs(lat2 - lat1)

Lats == 0..MaxCoord

Lons == {121}

\* toilet_df_copy with the distance column added by apply(...)
WithDistance(df, lat, lon) ==
    [i \in 1..Len(df) |->
        [id |-> df[i].id, lat |-> df[i].lat, lon |-> df[i].lon,
         distance |-> haversine(lat, lon, df[i].lat, df[i].lon)]]

Range(f) == {f[i] : i \in DOMAIN f}

\* Variant: descending order
SortValuesDescending(df) ==
    { s \in [1..Len(df) -> Range(df)] :
        /\ \A i, j \in 1..Len(df) : i # j => s[i] # s[j]
        /\ \A i, j \in 1..Len(df) : i < j => s[i].distance >= s[j].distance }

\* Variant: the table left in its own order
SortValuesSkipped(df) == {df}

\* sort_values("distance column") with the default kind="quicksort", which
\* pandas documents as not stable (only "mergesort" and "stable" are): every
\* ascending arrangement of the rows is a possible outcome, rows of equal
\* distance in any relative order.  (The sort underneath happens to keep
\* ties in place on very short arrays; the table of the deployment is far
\* longer than the tables enumerated here.)
sort_values(df) ==
    { s \in [1..Len(df) -> Range(df)] :
        /\ \A i, j \in 1..Len(df) : i # j => s[i] # s[j]
        /\ \A i, j \in 1..Len(df) : i < j => s[i].distance <= s[j].distance }

\* Variant: one row too many
HeadOneMore(df, n) ==
    SubSeq(df, 1, IF n + 1 < Len(df) THEN n + 1 ELSE Len(df))

\* DataFrame.head(n): the first n rows; for negative n all but the last -n
head(df, n) ==
    IF n >= 0
    THEN SubSeq(df, 1, IF n < Len(df) THEN n ELSE Len(df))
    ELSE SubSeq(df, 1, IF Len(df) + n > 0 THEN Len(df) + n ELSE 0)

ToiletsIdleFilter ==
    /\ messages = <<>>
    /\ current_index = 0
    /\ current_chunk = <<>>
    /\ result = <<>>
    /\ pc = "idle"
    /\ pass = 1
    /\ first_result = <<>>
    /\ closed_at = {}

\* Start-up: the table read from the CSV (empty when the load failed)
InitToilets ==
    /\ \E n \in 0..MaxRows :
         \E lats \in [1..n -> Lats] :
            \E lon \in Lons :
               toilet_df = [i \in 1..n |->
                               [id |-> i, lat |-> lats[i], lon |-> lon]]
    /\ query = [lat |-> 0, lon |-> 0, top_n |-> 0]
    /\ nearby = <<>>
    /\ tpc = "ready"
    /\ ToiletsIdleFilter
    /\ ServicesIdle

find_nearby_toilets(lat, lon, top_n) ==
    /\ tpc \in {"ready", "returned"}
    /\ IF toilet_df = <<>>
       THEN nearby' = <<>>
       ELSE \E sorted \in sort_values(WithDistance(toilet_df, lat, lon)) :
               nearby' = head(sorted, top_n)
    /\ query' = [lat |-> lat, lon |-> lon, top_n |-> top_n]
    /\ tpc' = "returned"
    /\ UNCHANGED toilet_df
    /\ UNCHANGED filterVars
    /\ UNCHANGED serviceVars

NextToilets ==
    \E lat \in Lats, lon \in Lons, top_n \in 0..MaxTopN :
        find_nearby_toilets(lat, lon, top_n)

SpecToilets == InitToilets /\ [][NextToilets]_vars

-----------------------------------------------------------------------------
(* The webhook: callback, handle_message, handle_location *)

DefaultTopN == 5

\* What find_nearby_toilets can return for one call
NearbyOutcomes(lat, lon, top_n) ==
    IF toilet_df = <<>>
    THEN {<<>>}
    ELSE { head(sorted, top_n) :
             sorted \in sort_values(WithDistance(toilet_df, lat, lon)) }

\* The classes of text the if/elif chain of handle_message tells apart, in
\* the order it tests them
TextKinds ==
    { "rate_prepare",            \* "評分準備|name|address"
      "rate_prepare_malformed",  \* "評分準備|..." not splitting in three
      "rate_score",              \* "評分_<int>"
      "rate_score_malformed",    \* "評分_<not an int>"
      "find_parking",            \* "尋找附近停車位"
      "parking_same",            \* "停車位_原位置"
      "parking_new",             \* "停車位_重新定位"
      "find_toilet",             \* "查詢公共廁所"
      "toilet_same",             \* "廁所_原位置"
      "toilet_new",              \* "廁所_重新定位"
      "ranking",                 \* "查看排行"
      "free_text" }              \* anything else

\* The toilet named in a well-formed "評分準備|name|address"
ToiletName == "T1"

\* Locations a location event can carry
Locations == { <<lat, lon>> : lat \in {0, 1}, lon \in Lons }

\* Outcomes of the outbound calls made while one event is handled: the
\* first and the second reply_message call, show_loading_animation, and the
\* ratings-sheet call (append_row / get_all_values with or without records)
Envs ==
    [reply1 : BOOLEAN, reply2 : BOOLEAN, loading : BOOLEAN,
     sheet_call : {"data", "empty", "raise"}]

\* Per-event working state: the dictionaries, the sheet, the outbound calls
\* made so far in order, and whether an exception left the handler
Ctx ==
    [us |-> user_state, ul |-> user_location, sel |-> user_selected_toilet,
     sheet |-> sheet, near |-> nearby, calls |-> <<>>, raised |-> FALSE]

Call(c, entry) == [c EXCEPT !.calls = Append(@, entry)]

\* line_bot_api.reply_message(ReplyMessageRequest(reply_token=..., ...))
\* inside a try whose except swallows or handles the failure
Reply(c, ev, text, ok) ==
    Call(c, [op |-> "reply", token |-> ev.reply_token, text |-> text,
             ok |-> ok])

\* reply_message outside any try (or inside the except block): a failure
\* leaves the handler as an exception
ReplyOrRaise(c, ev, text, ok) ==
    IF ok THEN Reply(c, ev, text, TRUE)
    ELSE [Reply(c, ev, text, FALSE) EXCEPT !.raised = TRUE]

\* try: reply_message(first text) ... except Exception: reply_message(error)
ReplyWithFallback(c, ev, text, error_text, env) ==
    IF env.reply1 THEN Reply(c, ev, text, TRUE)
    ELSE ReplyOrRaise(Reply(c, ev, text, FALSE), ev, error_text, env.reply2)

\* try: show_loading_animation(...) except Exception: log
ShowLoading(c, ev, ok) ==
    Call(c, [op |-> "loading", token |-> ev.reply_token, text |-> "",
             ok |-> ok])

\* Variant: nothing is handed to the pool
SubmitDropped(c, ev, query_kind) == c

\* executor.submit(process_and_push_text, user_id, user_id_with_session,
\* query): returns at once with the task queued
Submit(c, ev, query_kind) ==
    Call(c, [op |-> "submit", token |-> ev.reply_token, text |-> query_kind,
             ok |-> TRUE])

send_parking_info(c, ev, env) ==
    ReplyOrRaise(c, ev, "parking_list", env.reply1)

\* Variant: the empty-table check is missing
SendToiletInfoUnchecked(c, ev, location, env, near) ==
    IF near = <<>>
    THEN ReplyOrRaise(c, ev, "toilet_none_nearby", env.reply1)
    ELSE ReplyOrRaise([c EXCEPT !.near = near], ev, "toilet_list",
                      env.reply1)

\* near: what find_nearby_toilets(lat, lon) returned for this call
send_toilet_info(c, ev, location, env, near) ==
    IF toilet_df = <<>>
    THEN ReplyOrRaise(c, ev, "toilet_data_unavailable", env.reply1)
    ELSE IF near = <<>>
         THEN ReplyOrRaise(c, ev, "toilet_none_nearby", env.reply1)
         ELSE ReplyOrRaise([c EXCEPT !.near = near], ev, "toilet_list",
                           env.reply1)

IsSet(v) == v \notin {"absent", "None"}

\* The branch for "評分_<int>"
RateScore(c, ev, env) ==
    LET u == ev.user IN
    IF IsSet(c.sel[u]) /\ c.sheet.available
    THEN IF env.sheet_call = "raise"
         THEN ReplyOrRaise(
                 Call(c, [op |-> "append_row", token |-> ev.reply_token,
                          text |-> c.sel[u], ok |-> FALSE]),
                 ev, "rate_error", env.reply1)
         ELSE LET c1 == Call([c EXCEPT !.sheet.rows = @ + 1],
                             [op |-> "append_row", token |-> ev.reply_token,
                              text |-> c.sel[u], ok |-> TRUE])
              IN  IF env.reply1
                  THEN [Reply(c1, ev, "rate_thanks", TRUE)
                           EXCEPT !.sel[u] = "None"]
                  ELSE ReplyOrRaise(Reply(c1, ev, "rate_thanks", FALSE),
                                    ev, "rate_error", env.reply2)
    ELSE ReplyWithFallback(c, ev, "rate_select_first", "rate_error", env)

\* The branch for "查看排行"
Ranking(c, ev, env) ==
    IF ~c.sheet.available
    THEN ReplyOrRaise(c, ev, "ranking_unavailable", env.reply1)
    ELSE LET c1 == Call(c, [op |-> "get_all_values",
                            token |-> ev.reply_token, text |-> "",
                            ok |-> env.sheet_call # "raise"])
         IN  CASE env.sheet_call = "raise" ->
                    ReplyOrRaise(c1, ev, "ranking_error", env.reply1)
               [] env.sheet_call = "data" ->
                    ReplyWithFallback(c1, ev, "ranking_list",
                                      "ranking_error", env)
               [] env.sheet_call = "empty" ->
                    ReplyWithFallback(c1, ev, "ranking_empty",
                                      "ranking_error", env)

\* The branch for "廁所_原位置": user_location[user_id] is a KeyError when
\* the user never shared a location
ToiletSame(c, ev, env, near) ==
    IF c.ul[ev.user] = <<>>
    THEN [c EXCEPT !.raised = TRUE]
    ELSE send_toilet_info(c, ev, c.ul[ev.user], env, near)

handle_message(c, ev, env, near) ==
    LET u == ev.user
        text == ev.text
    IN  CASE text = "rate_prepare" ->
               ReplyOrRaise([c EXCEPT !.sel[u] = ToiletName], ev,
                            "rate_prompt", env.reply1)
          [] text = "rate_prepare_malformed" ->
               ReplyOrRaise(c, ev, "rate_format_error", env.reply1)
          [] text = "rate_score" -> RateScore(c, ev, env)
          [] text = "rate_score_malformed" ->
               ReplyOrRaise(c, ev, "rate_error", env.reply1)
          [] text = "find_parking" ->
               IF c.ul[u] # <<>>
               THEN ReplyOrRaise(c, ev, "ask_reuse_location", env.reply1)
               ELSE ReplyOrRaise([c EXCEPT !.us[u] = "awaiting_parking"],
                                 ev, "ask_parking_location", env.reply1)
          [] text = "parking_same" -> send_parking_info(c, ev, env)
          [] text = "parking_new" ->
               ReplyOrRaise([c EXCEPT !.us[u] = "awaiting_parking"], ev,
                            "ask_new_parking_location", env.reply1)
          [] text = "find_toilet" ->
               IF c.ul[u] # <<>>
               THEN ReplyOrRaise(c, ev, "ask_reuse_location", env.reply1)
               ELSE ReplyOrRaise([c EXCEPT !.us[u] = "awaiting_toilet"],
                                 ev, "ask_toilet_location", env.reply1)
          [] text = "toilet_same" -> ToiletSame(c, ev, env, near)
          [] text = "toilet_new" ->
               ReplyOrRaise([c EXCEPT !.us[u] = "awaiting_toilet"], ev,
                            "ask_new_toilet_location", env.reply1)
          [] text = "ranking" -> Ranking(c, ev, env)
          [] OTHER ->
               Submit(Reply(ShowLoading(c, ev, env.loading), ev,
                            "ack_thinking", env.reply1),
                      ev, "text")

handle_location(c, ev, env, near) ==
    LET u == ev.user
        c1 == [c EXCEPT !.ul[u] = ev.location]
    IN  IF c1.us[u] = "awaiting_parking"
        THEN LET c2 == Reply(c1, ev, "ack_parking", env.reply1)
                 c3 == [c2 EXCEPT !.us[u] = "None"]
             IN  Submit(ShowLoading(c3, ev, env.loading), ev,
                        "parking_near_location")
        ELSE IF c1.us[u] = "awaiting_toilet"
        THEN LET c2 == send_toilet_info(c1, ev, c1.ul[u], env, near)
             IN  IF c2.raised THEN c2 ELSE [c2 EXCEPT !.us[u] = "None"]
        ELSE Submit(ShowLoading(Reply(c1, ev, "ack_location", env.reply1),
                                ev, env.loading),
                    ev, "about_location")

NoEvent ==
    [kind |-> "none", user |-> "", text |-> "", location |-> <<>>,
     token |-> 0, calls |-> <<>>, raised |-> FALSE]

\* The table of the webhook runs: two restrooms on the grid
BotTable ==
    LET lon == CHOOSE l \in Lons : TRUE IN
    << [id |-> 1, lat |-> 0, lon |-> lon], [id |-> 2, lat |-> 1, lon |-> lon] >>

\* Module load: init_google_sheet() and read_csv each succeed or fall back
InitBot ==
    /\ sheet \in [available : BOOLEAN, rows : {0}]
    /\ toilet_df \in {<<>>, BotTable}
    /\ user_state = [u \in Users |-> "absent"]
    /\ user_location = [u \in Users |-> <<>>]
    /\ user_selected_toilet = [u \in Users |-> "absent"]
    /\ http = [phase |-> "idle", sig_ok |-> TRUE, status |-> 0, events |-> 0]
    /\ handled = NoEvent
    /\ query = [lat |-> 0, lon |-> 0, top_n |-> 0]
    /\ nearby = <<>>
    /\ tpc = "idle"
    /\ ToiletsIdleFilter
    /\ PoolIdle /\ LlmIdle /\ SessionIdle /\ ParkingIdle
    /\ ThreadsIdle /\ TaskIdle

\* POST /callback arrives; handler.handle verifies the signature first and
\* abort(400) answers a bad one
callback(sig_ok) ==
    /\ http.phase \in {"idle", "responded"}
    /\ http' = IF sig_ok
               THEN [phase |-> "handling", sig_ok |-> TRUE, status |-> 0,
                     events |-> 0]
               ELSE [phase |-> "responded", sig_ok |-> FALSE,
                     status |-> 400, events |-> 0]
    /\ handled' = NoEvent
    /\ UNCHANGED <<sheet, user_state, user_location, user_selected_toilet>>
    /\ UNCHANGED <<filterVars, toiletVars, executor, llm, session, parking,
                   threads, task>>

\* State after one handler ran to its end (or to its exception); an
\* exception leaves handler.handle and callback and the framework answers 500
AfterHandler(c, ev, kind) ==
    /\ user_state' = c.us
    /\ user_location' = c.ul
    /\ user_selected_toilet' = c.sel
    /\ sheet' = c.sheet
    /\ nearby' = c.near
    /\ handled' = [kind |-> kind, user |-> ev.user, text |-> ev.text,
                   location |-> ev.location,
                   token |-> ev.reply_token, calls |-> c.calls,
                   raised |-> c.raised]
    /\ http' = IF c.raised
               THEN [http EXCEPT !.phase = "responded", !.status = 500,
                                 !.events = @ + 1]
               ELSE [http EXCEPT !.events = @ + 1]
    /\ UNCHANGED <<toilet_df, query, tpc>>
    /\ UNCHANGED <<filterVars, executor, llm, session, parking,
                   threads, task>>

\* The locations find_nearby_toilets may be called with while ev is handled
NearbyFor(loc) ==
    IF loc = <<>> THEN {<<>>}
    ELSE NearbyOutcomes(loc[1], loc[2], DefaultTopN)

HandleMessage ==
    /\ http.phase = "handling"
    /\ http.events < MaxEvents
    /\ \E u \in Users, text \in TextKinds, env \in Envs :
         LET ev == [user |-> u, text |-> text, location |-> <<>>,
                    reply_token |-> http.events + 1]
         IN  /\ text = "rate_score" => sheet.rows < MaxAppends
             /\ \E near \in NearbyFor(user_location[u]) :
                   AfterHandler(handle_message(Ctx, ev, env, near), ev,
                                "text")

HandleLocation ==
    /\ http.phase = "handling"
    /\ http.events < MaxEvents
    /\ \E u \in Users, loc \in Locations, env \in Envs :
         LET ev == [user |-> u, text |-> "", location |-> loc,
                    reply_token |-> http.events + 1]
         IN  \E near \in NearbyFor(loc) :
                AfterHandler(handle_location(Ctx, ev, env, near), ev,
                             "location")

\* handler.handle returned: return "OK"
ReturnOK ==
    /\ http.phase = "handling"
    /\ http' = [http EXCEPT !.phase = "responded", !.status = 200]
    /\ UNCHANGED <<sheet, user_state, user_location, user_selected_toilet,
                   handled>>
    /\ UNCHANGED <<filterVars, toiletVars, executor, llm, session, parking,
                   threads, task>>

NextBot ==
    \/ \E sig_ok \in BOOLEAN : callback(sig_ok)
    \/ HandleMessage
    \/ HandleLocation
    \/ ReturnOK

SpecBot == InitBot /\ [][NextBot]_vars

-----------------------------------------------------------------------------
(* The worker pool: executor = ThreadPoolExecutor(max_workers=8) *)

MaxWorkers == 8

\* Tasks are numbered in submission order
AllTasks(ex) ==
    {ex.queue[i] : i \in 1..Len(ex.queue)} \cup ex.running \cup ex.done

\* Variant: a worker is started for every queued task
WorkerAlwaysFree(ex) == TRUE

\* A worker thread is free to take the next queued task
WorkerFree(ex) == Cardinality(ex.running) < MaxWorkers

InitPool ==
    /\ PoolIdle
    /\ BotIdle /\ LlmIdle /\ SessionIdle /\ ParkingIdle
    /\ ThreadsIdle /\ TaskIdle
    /\ FilterIdleToilets
    /\ ToiletsIdleFilter

\* A handler calls executor.submit(process_and_push_text, ...) and goes on:
\* the task is appended to the pool's queue
PoolSubmit ==
    /\ Cardinality(AllTasks(executor)) < MaxTasks
    /\ executor' = [executor EXCEPT
                      !.queue = Append(@, Cardinality(AllTasks(executor)) + 1)]
    /\ UNCHANGED <<filterVars, toiletVars, botVars, llm, session, parking,
                   threads, task>>

\* A free worker takes the oldest queued task and starts
\* process_and_push_text
WorkerStart ==
    /\ executor.queue # <<>>
    /\ WorkerFree(executor)
    /\ executor' = [executor EXCEPT
                      !.queue = Tail(@),
                      !.running = @ \cup {Head(executor.queue)}]
    /\ UNCHANGED <<filterVars, toiletVars, botVars, llm, session, parking,
                   threads, task>>

\* process_and_push_text returns, after however long the model call took
WorkerFinish ==
    /\ \E t \in executor.running :
         executor' = [executor EXCEPT !.running = @ \ {t},
                                      !.done = @ \cup {t}]
    /\ UNCHANGED <<filterVars, toiletVars, botVars, llm, session, parking,
                   threads, task>>

NextPool == PoolSubmit \/ WorkerStart \/ WorkerFinish

SpecPool == InitPool /\ [][NextPool]_vars

-----------------------------------------------------------------------------
(* call_llm *)

\* Characters of a response body: blank, newline, and two others
Chars == {" ", "\n", "a", "b"}

IsSpace(ch) == ch \in {" ", "\n", "\r"}

RECURSIVE LStrip(_)
LStrip(t) ==
    IF t # <<>> /\ IsSpace(Head(t)) THEN LStrip(Tail(t)) ELSE t

RECURSIVE RStrip(_)
RStrip(t) ==
    IF t # <<>> /\ IsSpace(t[Len(t)])
    THEN RStrip(SubSeq(t, 1, Len(t) - 1))
    ELSE t

\* str.strip()
Strip(t) == RStrip(LStrip(t))

\* The fixed string returned on failure
Apology == <<"apology">>

\* What the GET can end in: an exception of requests raised in transit, or
\* a response with a final status and a body
TransportFailures == {"ConnectTimeout", "ReadTimeout", "ConnectionError"}

Statuses == {200, 204, 304, 404, 500}

Texts == UNION { [1..n -> Chars] : n \in 0..MaxTextLen }

Upstreams ==
    [kind : TransportFailures, status : {0}, text : {<<>>}]
    \cup [kind : {"response"}, status : Statuses, text : Texts]

\* Variant: raise_for_status() is not called
NeverRaisesForStatus(status) == FALSE

\* r.raise_for_status(): HTTPError for a 4xx or 5xx status, nothing otherwise
RaisesForStatus(status) == status >= 400 /\ status < 600

\* Variant: except requests.exceptions.Timeout
CatchesTimeoutsOnly(exc) == exc \in {"ConnectTimeout", "ReadTimeout"}

\* except requests.exceptions.RequestException: every exception of the
\* requests library is one
CatchesRequestException(exc) ==
    exc \in TransportFailures \cup {"HTTPError"}

\* The exception leaving the try body, "none" when it runs to its return
RaisedInTry(up) ==
    IF up.kind # "response" THEN up.kind
    ELSE IF RaisesForStatus(up.status) THEN "HTTPError"
    ELSE "none"

InitLlm ==
    /\ \E up \in Upstreams :
          llm = [pc |-> "ready", upstream |-> up, outcome |-> "none",
                 value |-> <<>>]
    /\ BotIdle /\ PoolIdle /\ SessionIdle /\ ParkingIdle
    /\ ThreadsIdle /\ TaskIdle
    /\ FilterIdleToilets
    /\ ToiletsIdleFilter

call_llm ==
    /\ llm.pc = "ready"
    /\ LET exc == RaisedInTry(llm.upstream) IN
       llm' = IF exc = "none"
              THEN [llm EXCEPT !.pc = "done", !.outcome = "returned",
                               !.value = Strip(llm.upstream.text)]
              ELSE IF CatchesRequestException(exc)
              THEN [llm EXCEPT !.pc = "done", !.outcome = "returned",
                               !.value = Apology]
              ELSE [llm EXCEPT !.pc = "done", !.outcome = "raised"]
    /\ UNCHANGED <<filterVars, toiletVars, botVars, executor, session,
                   parking, threads, task>>

NextLlm == call_llm

SpecLlm == InitLlm /\ [][NextLlm]_vars

-----------------------------------------------------------------------------
(* The session identifier: event_hour_yyyymmddhh and user_id_with_session *)

\* Event timestamps are counted in ticks, TicksPerHour to the hour (the
\* code's unit is the millisecond, 3,600,000 to the hour); the hours
\* enumerated start two hours before 2025-01-01 00:00 Asia/Taipei, which is
\* hour 482128 since the epoch.
FirstHour == 482128 - 2

Timestamps ==
    (FirstHour * TicksPerHour) ..
        ((FirstHour + SessionHours) * TicksPerHour - 1)

\* UTC offset of ZoneInfo("Asia/Taipei"), in hours
TaipeiOffset == 8

\* Year, month and day of the day number z since 1970-01-01 (proleptic
\* Gregorian calendar), as datetime computes them
CivilFromDays(z) ==
    LET zz == z + 719468
        era == zz \div 146097
        doe == zz - era * 146097
        yoe == (doe - doe \div 1460 + doe \div 36524 - doe \div 146096)
                  \div 365
        doy == doe - (365 * yoe + yoe \div 4 - yoe \div 100)
        mp == (5 * doy + 2) \div 153
        d == doy - (153 * mp + 2) \div 5 + 1
        m == IF mp < 10 THEN mp + 3 ELSE mp - 9
        y == yoe + era * 400 + (IF m <= 2 THEN 1 ELSE 0)
    IN  [year |-> y, month |-> m, day |-> d]

DigitChars == <<"0", "1", "2", "3", "4", "5", "6", "7", "8", "9">>

\* n written in decimal, zero-padded to width characters
RECURSIVE Digits(_, _)
Digits(n, width) ==
    IF width = 0 THEN <<>>
    ELSE Append(Digits(n \div 10, width - 1), DigitChars[(n % 10) + 1])

\* Variant: strftime("%Y%m%d"), the day without the hour
EventDayOnly(event_ts) ==
    LET local == event_ts \div TicksPerHour + TaipeiOffset
        date == CivilFromDays(local \div 24)
    IN  Digits(date.year, 4) \o Digits(date.month, 2) \o Digits(date.day, 2)

\* Variant: the hour in UTC
EventHourUTC(event_ts) ==
    LET local == event_ts \div TicksPerHour
        date == CivilFromDays(local \div 24)
    IN  Digits(date.year, 4) \o Digits(date.month, 2) \o Digits(date.day, 2)
           \o Digits(local % 24, 2)

\* datetime.fromtimestamp(event_ts_ms / 1000, ZoneInfo(tz))
\*     .strftime("%Y%m%d%H")
event_hour_yyyymmddhh(event_ts) ==
    LET local == event_ts \div TicksPerHour + TaipeiOffset
        date == CivilFromDays(local \div 24)
    IN  Digits(date.year, 4) \o Digits(date.month, 2) \o Digits(date.day, 2)
           \o Digits(local % 24, 2)

\* Platform user ids, as character sequences; some contain the separator
\* and digits
SessionUsers ==
    { <<"U">>, <<"U", "1">>, <<"U", ":", "2">>, <<"U", "1", ":">> }

\* f"{user_id}:{hour_suffix}"
UserIdWithSession(user_id, event_ts) ==
    user_id \o <<":">> \o event_hour_yyyymmddhh(event_ts)

InitSession ==
    /\ \E u1, u2 \in SessionUsers, t1, t2 \in Timestamps :
          session = [pc |-> "ready",
                     e1 |-> [user |-> u1, timestamp |-> t1],
                     e2 |-> [user |-> u2, timestamp |-> t2],
                     id1 |-> <<>>, id2 |-> <<>>]
    /\ BotIdle /\ PoolIdle /\ LlmIdle /\ ParkingIdle
    /\ ThreadsIdle /\ TaskIdle
    /\ FilterIdleToilets
    /\ ToiletsIdleFilter

\* Both events reach a handler, which derives user_id_with_session
DeriveSessionIds ==
    /\ session.pc = "ready"
    /\ session' =
          [session EXCEPT
              !.pc = "done",
              !.id1 = UserIdWithSession(session.e1.user,
                                        session.e1.timestamp),
              !.id2 = UserIdWithSession(session.e2.user,
                                        session.e2.timestamp)]
    /\ UNCHANGED <<filterVars, toiletVars, botVars, executor, llm, parking,
                   threads, task>>

NextSession == DeriveSessionIds

SpecSession == InitSession /\ [][NextSession]_vars

-----------------------------------------------------------------------------
(* The parking tool provider: find_parking and the inline TDX backend *)

\* Earth radius in metres used by _haversine_meters
RMetres == 6371000

\* Bounds of the radius argument: Field(1000, ge=1, le=1000)
RadiusGe == 1
RadiusLe == 1000

\* Latitudes are whole microdegrees; every point lies on the meridian of
\* the query centre, where the haversine distance is the arc R * |dlat|.
\* Distances are whole micrometres.
MicronsPerMicrodegree == ((RMetres \div 1000) * 314159) \div 18000

MicronsPerMetre == 1000 * 1000

QueryLatitudes == {25037500}

RecordOffsets == {8, 0 - 9, 8993, 0 - 8994}

\* A record's usable coordinate: <<lat>>, or <<>> when _extract_position
\* finds none
Positions ==
    {<<>>} \cup {<<lat + d>> : lat \in QueryLatitudes, d \in RecordOffsets}

None == "None"

Unknown == "unknown"

CarParkIds == {"P1", "P2"}

CarParkRecords == [id : CarParkIds, pos : Positions]

\* An availability object of the upstream answer; a missing object is the
\* one with no value under any key
AvailabilityObjects ==
    [AvailableSpaces : {None, "0"}, AvailableCar : {None, "3"}]

SegmentRecords ==
    [id : {"S1"}, pos : Positions, AvailableSpaces : {None, "0", "7"}]

OffStreetKeys ==
    <<"AvailableSpaces", "AvailableCar", "availablecar", "available_spaces">>

OnStreetKeys == <<"AvailableSpaces", "SpacesAvailable", "available_spaces">>

SeqsUpTo(S, n) == UNION {[1 .. k -> S] : k \in 0 .. n}

Radii == {0, 1, 1000, 1001}

\* What an upstream call does: the token request, and each data request
TokenOutcomes == {"ok", "not_200", "missing_token", "transport"}

JsonOutcomes == {"ok", "not_200", "non_json", "transport"}

\* Variant: the distance read as whole metres against a radius in metres
HaversineMetresTruncated(lat1, lat2) ==
    ((Abs(lat2 - lat1) * MicronsPerMicrodegree) \div MicronsPerMetre)
        * MicronsPerMetre

_haversine_meters(lat1, lat2) == Abs(lat2 - lat1) * MicronsPerMicrodegree

\* Variant: a falsy value counts as missing
ExtractFirstTruthy(values, keys) ==
    LET present ==
            SelectSeq(keys, LAMBDA k : k \in DOMAIN values
                                         /\ values[k] \notin {None, "0"})
    IN  IF present = <<>> THEN None ELSE values[present[1]]

\* The value under the first key that is present and not None
_extract_first(values, keys) ==
    LET present ==
            SelectSeq(keys, LAMBDA k : k \in DOMAIN values
                                         /\ values[k] # None)
    IN  IF present = <<>> THEN None ELSE values[present[1]]

\* Variant: the off-street loop without the radius test
OffStreetUnfiltered(carparks, avail_index, lat, radius) ==
    LET Item(cp) ==
            LET available == _extract_first(avail_index[cp.id], OffStreetKeys)
            IN  [type |-> "OffStreet", id |-> cp.id,
                 available_spaces |->
                     IF available = None THEN Unknown ELSE available]
        kept == SelectSeq(carparks, LAMBDA cp : cp.pos # <<>>)
    IN  [i \in DOMAIN kept |-> Item(kept[i])]

\* The loop over carparks: skip a record with no position or beyond the
\* radius, join the availability by id
OffStreetItems(carparks, avail_index, lat, radius) ==
    LET Item(cp) ==
            LET available == _extract_first(avail_index[cp.id], OffStreetKeys)
            IN  [type |-> "OffStreet", id |-> cp.id,
                 available_spaces |->
                     IF available = None THEN Unknown ELSE available]
        Keep(cp) ==
            /\ cp.pos # <<>>
            /\ ~(_haversine_meters(lat, cp.pos[1]) > radius * MicronsPerMetre)
        kept == SelectSeq(carparks, Keep)
    IN  [i \in DOMAIN kept |-> Item(kept[i])]

\* The loop over on-street segments
OnStreetItems(onstreet, lat, radius) ==
    LET Item(seg) ==
            LET avail == _extract_first(seg, OnStreetKeys)
            IN  [type |-> "OnStreet", id |-> seg.id,
                 available_spaces |->
                     IF avail = None THEN Unknown ELSE avail]
        Keep(seg) ==
            /\ seg.pos # <<>>
            /\ ~(_haversine_meters(lat, seg.pos[1]) > radius * MicronsPerMetre)
        kept == SelectSeq(onstreet, Keep)
    IN  [i \in DOMAIN kept |-> Item(kept[i])]

\* The fixed answer of the stub backend
StubItems ==
    << [type |-> "OffStreet", id |-> "DEMO-001", available_spaces |-> "42"],
       [type |-> "OnStreet", id |-> "SEG-100", available_spaces |-> Unknown] >>

InitParking ==
    /\ \E lat \in QueryLatitudes, radius \in Radii,
          stub \in BOOLEAN, credentials \in BOOLEAN :
          parking = [pc |-> "request", latitude |-> lat, radius |-> radius,
                     stub |-> stub, credentials |-> credentials,
                     carparks |-> <<>>,
                     avail_index |->
                         [id \in CarParkIds |->
                             [AvailableSpaces |-> None,
                              AvailableCar |-> None]],
                     onstreet |-> <<>>, onstreet_outcome |-> "none",
                     results |-> <<>>, raised |-> "none", calls |-> 0]
    /\ BotIdle /\ PoolIdle /\ LlmIdle /\ SessionIdle
    /\ ThreadsIdle /\ TaskIdle
    /\ FilterIdleToilets
    /\ ToiletsIdleFilter

ParkingUnchanged ==
    UNCHANGED <<filterVars, toiletVars, botVars, executor, llm, session,
                   threads, task>>

\* find_parking up to the first upstream call: the argument validation of
\* the tool, then _call_backend's stub and credential branches
find_parking ==
    /\ parking.pc = "request"
    /\ parking' =
          IF ~(parking.radius >= RadiusGe /\ parking.radius <= RadiusLe)
          THEN [parking EXCEPT !.pc = "rejected"]
          ELSE IF parking.stub
          THEN [parking EXCEPT !.pc = "returned", !.results = StubItems]
          ELSE IF ~parking.credentials
          THEN [parking EXCEPT !.pc = "raised", !.raised = "RuntimeError"]
          ELSE [parking EXCEPT !.pc = "token"]
    /\ ParkingUnchanged

\* _tdx_get_token; nothing between it and find_parking's caller catches
_tdx_get_token ==
    /\ parking.pc = "token"
    /\ \E outcome \in TokenOutcomes :
          parking' =
             CASE outcome = "ok" ->
                    [parking EXCEPT !.pc = "carparks", !.calls = @ + 1]
               [] outcome \in {"not_200", "missing_token"} ->
                    [parking EXCEPT !.pc = "raised", !.calls = @ + 1,
                                    !.raised = "TDXAuthError"]
               [] outcome = "transport" ->
                    [parking EXCEPT !.pc = "raised", !.calls = @ + 1,
                                    !.raised = "RequestException"]
    /\ ParkingUnchanged

\* What _tdx_get_json raises for an outcome
JsonRaises(outcome) ==
    CASE outcome = "ok" -> "none"
      [] outcome \in {"not_200", "non_json"} -> "RuntimeError"
      [] outcome = "transport" -> "RequestException"

\* _tdx_get_json for the off-street car parks
GetCarParks ==
    /\ parking.pc = "carparks"
    /\ \E outcome \in JsonOutcomes :
          IF outcome = "ok"
          THEN \E carparks \in SeqsUpTo(CarParkRecords, MaxCarParks) :
                  parking' = [parking EXCEPT !.pc = "availability",
                                             !.calls = @ + 1,
                                             !.carparks = carparks]
          ELSE parking' = [parking EXCEPT !.pc = "raised", !.calls = @ + 1,
                                          !.raised = JsonRaises(outcome)]
    /\ ParkingUnchanged

\* _tdx_get_json for the availability, then the off-street loop
GetAvailability ==
    /\ parking.pc = "availability"
    /\ \E outcome \in JsonOutcomes :
          IF outcome = "ok"
          THEN \E avail_index \in [CarParkIds -> AvailabilityObjects] :
                  parking' =
                     [parking EXCEPT
                         !.pc = "onstreet", !.calls = @ + 1,
                         !.avail_index = avail_index,
                         !.results =
                             OffStreetItems(parking.carparks, avail_index,
                                            parking.latitude,
                                            parking.radius)]
          ELSE parking' = [parking EXCEPT !.pc = "raised", !.calls = @ + 1,
                                          !.raised = JsonRaises(outcome)]
    /\ ParkingUnchanged

\* The on-street request inside try/except Exception: pass, the loop over
\* its segments, and the return through ParkingResponse.model_validate
GetOnStreet ==
    /\ parking.pc = "onstreet"
    /\ \E outcome \in JsonOutcomes :
          IF outcome = "ok"
          THEN \E onstreet \in SeqsUpTo(SegmentRecords, MaxSegments) :
                  parking' =
                     [parking EXCEPT
                         !.pc = "returned", !.calls = @ + 1,
                         !.onstreet = onstreet,
                         !.onstreet_outcome = outcome,
                         !.results =
                             @ \o OnStreetItems(onstreet, parking.latitude,
                                                parking.radius)]
          ELSE parking' = [parking EXCEPT !.pc = "returned",
                                          !.calls = @ + 1,
                                          !.onstreet_outcome = outcome]
    /\ ParkingUnchanged

NextParking ==
    \/ find_parking
    \/ _tdx_get_token
    \/ GetCarParks
    \/ GetAvailability
    \/ GetOnStreet

SpecParking == InitParking /\ [][NextParking]_vars

-----------------------------------------------------------------------------
(* Concurrent deliveries: handle_location on several request threads *)

\* Each delivery runs handle_location on its own thread. A step is what one
\* thread does between two points where another thread can run: a read or
\* a write of a shared map, or an outbound call.
ThreadIds == 1 .. MaxDeliveries

RaceUser == CHOOSE u \in Users : TRUE

PendingStates == {"None", "awaiting_parking", "awaiting_toilet"}

\* Between reading the awaiting-parking value and clearing it
InParkingBranch(t) == t.pc \in {"ack_parking", "clear_parking"}

InitRace ==
    /\ \E st \in PendingStates : user_state = [u \in Users |-> st]
    /\ user_location = [u \in Users |-> <<>>]
    /\ \E locs \in [ThreadIds -> Locations] :
          threads = [i \in ThreadIds |->
                        [pc |-> "start", location |-> locs[i],
                         saw |-> "none", served |-> "none"]]
    /\ sheet = [available |-> FALSE, rows |-> 0]
    /\ user_selected_toilet = [u \in Users |-> "absent"]
    /\ http = [phase |-> "idle"]
    /\ handled = [kind |-> "none"]
    /\ PoolIdle /\ LlmIdle /\ SessionIdle /\ ParkingIdle /\ TaskIdle
    /\ FilterIdleToilets
    /\ ToiletsIdleFilter

RaceUnchanged ==
    UNCHANGED <<filterVars, toiletVars, sheet, user_selected_toilet, http,
                handled, llm, session, parking, task>>

\* user_location[user_id] = f"{lat},{lon}"
StoreLocation(i) ==
    /\ threads[i].pc = "start"
    /\ user_location' =
          [user_location EXCEPT ![RaceUser] = threads[i].location]
    /\ threads' = [threads EXCEPT ![i].pc = "check_parking"]
    /\ UNCHANGED <<user_state, executor>>
    /\ RaceUnchanged

\* Variant: the branch is entered only while no other handler is inside it
CheckParkingLocked(i) ==
    /\ threads[i].pc = "check_parking"
    /\ \A j \in ThreadIds \ {i} : ~InParkingBranch(threads[j])
    /\ threads' =
          [threads EXCEPT
              ![i].saw = user_state[RaceUser],
              ![i].pc = IF user_state[RaceUser] = "awaiting_parking"
                        THEN "ack_parking" ELSE "check_toilet"]
    /\ UNCHANGED <<user_state, user_location, executor>>
    /\ RaceUnchanged

\* if user_state.get(user_id) == "等待位置_停車場"
CheckParking(i) ==
    /\ threads[i].pc = "check_parking"
    /\ threads' =
          [threads EXCEPT
              ![i].saw = user_state[RaceUser],
              ![i].pc = IF user_state[RaceUser] = "awaiting_parking"
                        THEN "ack_parking" ELSE "check_toilet"]
    /\ UNCHANGED <<user_state, user_location, executor>>
    /\ RaceUnchanged

\* reply_message inside try/except: the handler goes on either way
AckParking(i) ==
    /\ threads[i].pc = "ack_parking"
    /\ threads' = [threads EXCEPT ![i].pc = "clear_parking"]
    /\ UNCHANGED <<user_state, user_location, executor>>
    /\ RaceUnchanged

\* user_state[user_id] = None
ClearParking(i) ==
    /\ threads[i].pc = "clear_parking"
    /\ user_state' = [user_state EXCEPT ![RaceUser] = "None"]
    /\ threads' = [threads EXCEPT ![i].pc = "submit",
                                  ![i].served = "parking"]
    /\ UNCHANGED <<user_location, executor>>
    /\ RaceUnchanged

\* elif user_state.get(user_id) == "等待位置_公共廁所": a second read
CheckToilet(i) ==
    /\ threads[i].pc = "check_toilet"
    /\ threads' =
          [threads EXCEPT
              ![i].saw = user_state[RaceUser],
              ![i].pc = IF user_state[RaceUser] = "awaiting_toilet"
                        THEN "send_toilet" ELSE "ack_other"]
    /\ UNCHANGED <<user_state, user_location, executor>>
    /\ RaceUnchanged

\* send_toilet_info(event, user_location[user_id]): its reply succeeds, or
\* raises out of the handler
SendToilet(i) ==
    /\ threads[i].pc = "send_toilet"
    /\ \E ok \in BOOLEAN :
          threads' = [threads EXCEPT
                         ![i].pc = IF ok THEN "clear_toilet" ELSE "raised",
                         ![i].served = IF ok THEN "toilet" ELSE "none"]
    /\ UNCHANGED <<user_state, user_location, executor>>
    /\ RaceUnchanged

ClearToilet(i) ==
    /\ threads[i].pc = "clear_toilet"
    /\ user_state' = [user_state EXCEPT ![RaceUser] = "None"]
    /\ threads' = [threads EXCEPT ![i].pc = "done"]
    /\ UNCHANGED <<user_location, executor>>
    /\ RaceUnchanged

\* else: the acknowledgment inside try/except
AckOther(i) ==
    /\ threads[i].pc = "ack_other"
    /\ threads' = [threads EXCEPT ![i].pc = "submit",
                                  ![i].served = "other"]
    /\ UNCHANGED <<user_state, user_location, executor>>
    /\ RaceUnchanged

\* show_loading_animation inside try/except, then executor.submit(...)
SubmitFromThread(i) ==
    /\ threads[i].pc = "submit"
    /\ executor' =
          [executor EXCEPT
              !.queue = Append(@, Cardinality(AllTasks(executor)) + 1)]
    /\ threads' = [threads EXCEPT ![i].pc = "done"]
    /\ UNCHANGED <<user_state, user_location>>
    /\ RaceUnchanged

NextRace ==
    \E i \in ThreadIds :
       \/ StoreLocation(i)
       \/ CheckParking(i)
       \/ AckParking(i)
       \/ ClearParking(i)
       \/ CheckToilet(i)
       \/ SendToilet(i)
       \/ ClearToilet(i)
       \/ AckOther(i)
       \/ SubmitFromThread(i)

SpecRace == InitRace /\ [][NextRace]_vars

-----------------------------------------------------------------------------
(* The background task: process_and_push_text *)

\* Characters of an answer: whitespace, both quotes, the backslash and one
\* ordinary character
AnswerChars == {" ", "\r", "\n", "\"", "'", "\\", "a"}

AnswerTexts == UNION { [1..n -> AnswerChars] : n \in 0..MaxAnswerLen }

TaskUpstreams ==
    [kind : TransportFailures, status : {0}, text : {<<>>}]
    \cup [kind : {"response"}, status : Statuses, text : AnswerTexts]

\* What call_llm hands back for an upstream outcome
CallLlm(up) ==
    LET exc == RaisedInTry(up) IN
    IF exc = "none"
    THEN [outcome |-> "returned", value |-> Strip(up.text)]
    ELSE IF CatchesRequestException(exc)
    THEN [outcome |-> "returned", value |-> Apology]
    ELSE [outcome |-> "raised", value |-> <<>>]

\* The body of a JSON string: [ok, value]. A raw quote ends the string
\* early, a raw control character or an unknown escape is an error.
RECURSIVE JsonStringBody(_)
JsonStringBody(t) ==
    IF t = <<>> THEN [ok |-> TRUE, value |-> <<>>]
    ELSE IF Head(t) = "\\"
    THEN IF Len(t) >= 2 /\ t[2] \in {"\"", "\\"}
         THEN LET rest == JsonStringBody(SubSeq(t, 3, Len(t)))
              IN  [ok |-> rest.ok, value |-> <<t[2]>> \o rest.value]
         ELSE [ok |-> FALSE, value |-> <<>>]
    ELSE IF Head(t) \in {"\"", "\r", "\n"}
    THEN [ok |-> FALSE, value |-> <<>>]
    ELSE LET rest == JsonStringBody(Tail(t))
         IN  [ok |-> rest.ok, value |-> <<Head(t)>> \o rest.value]

\* json.loads(s) for an s that starts and ends with a quote character
JsonLoads(t) ==
    IF Len(t) >= 2 /\ t[1] = "\""
    THEN JsonStringBody(SubSeq(t, 2, Len(t) - 1))
    ELSE [ok |-> FALSE, value |-> <<>>]

\* s.replace('\r\n', '\n')
RECURSIVE ReplaceCRLF(_)
ReplaceCRLF(t) ==
    IF t = <<>> THEN <<>>
    ELSE IF Len(t) >= 2 /\ t[1] = "\r" /\ t[2] = "\n"
    THEN <<"\n">> \o ReplaceCRLF(SubSeq(t, 3, Len(t)))
    ELSE <<Head(t)>> \o ReplaceCRLF(Tail(t))

Quoted(t) ==
    /\ t # <<>>
    /\ \/ t[1] = "\"" /\ t[Len(t)] = "\""
       \/ t[1] = "'" /\ t[Len(t)] = "'"

normalize_llm_text(text) ==
    LET t == Strip(text)
        unquoted ==
            IF Quoted(t)
            THEN IF JsonLoads(t).ok THEN JsonLoads(t).value
                 ELSE SubSeq(t, 2, Len(t) - 1)
            ELSE t
    IN  ReplaceCRLF(unquoted)

\* Variant: _push_text without the try/except around push_message
PushTextUncaught(t, ok) ==
    [t EXCEPT !.pc = IF ok THEN "done" ELSE "raised",
              !.log = Append(@, "push"),
              !.pushes = Append(@, [to |-> t.user, text |-> t.answer,
                                    ok |-> ok])]

\* _push_text: push_message succeeds, or its exception is logged
_push_text(t, ok) ==
    [t EXCEPT !.pc = "done",
              !.log = Append(@, "push"),
              !.pushes = Append(@, [to |-> t.user, text |-> t.answer,
                                    ok |-> ok])]

\* A worker of the pool has started the task
InitTask ==
    /\ \E u \in Users, up \in TaskUpstreams :
          task = [pc |-> "call_llm", user |-> u, upstream |-> up,
                  answer |-> <<>>, log |-> <<>>, pushes |-> <<>>]
    /\ BotIdle /\ PoolIdle /\ LlmIdle /\ SessionIdle /\ ParkingIdle
    /\ ThreadsIdle
    /\ FilterIdleToilets
    /\ ToiletsIdleFilter

TaskUnchanged ==
    UNCHANGED <<filterVars, toiletVars, botVars, executor, llm, session,
                parking, threads>>

\* answer = call_llm(user_id=user_id_with_session, query=query)
TaskCallLlm ==
    /\ task.pc = "call_llm"
    /\ LET r == CallLlm(task.upstream) IN
       task' = IF r.outcome = "raised"
               THEN [task EXCEPT !.pc = "raised",
                                 !.log = Append(@, "call_llm")]
               ELSE [task EXCEPT !.pc = "normalize", !.answer = r.value,
                                 !.log = Append(@, "call_llm")]
    /\ TaskUnchanged

\* answer = normalize_llm_text(answer)
TaskNormalize ==
    /\ task.pc = "normalize"
    /\ task' = [task EXCEPT !.pc = "push",
                            !.answer = normalize_llm_text(task.answer),
                            !.log = Append(@, "normalize_llm_text")]
    /\ TaskUnchanged

\* _push_text(user_id, answer)
TaskPush ==
    /\ task.pc = "push"
    /\ \E ok \in BOOLEAN : task' = _push_text(task, ok)
    /\ TaskUnchanged

NextTask == TaskCallLlm \/ TaskNormalize \/ TaskPush

\* The worker thread keeps running the task it started
SpecTask == InitTask /\ [][NextTask]_vars /\ WF_vars(NextTask)

-----------------------------------------------------------------------------
(* Properties of filter_conversation *)

Max(S) == CHOOSE x \in S : \A y \in S : y <= x

IsGenuineUser(m) == m.type = "human" /\ m.is_reflect \in {"absent", "false"}

IsFinalAssistant(m) == m.type = "ai" /\ m.tool_calls = 0

\* The closure condition as the specification words it, at 0-based index i
ClosesAt(msgs, i) ==
    /\ IsFinalAssistant(msgs[i + 1])
    /\ i + 1 < Len(msgs)
    /\ IsGenuineUser(msgs[i + 2])

\* 0-based index of the first message of the chunk that closed at index i
ChunkStart(i) ==
    LET before == {j \in closed_at : j < i} IN
    IF before = {} THEN 0 ELSE Max(before) + 1

\* The messages of the output that came from input positions lo..hi (0-based)
FromChunk(out, lo, hi) ==
    LET InChunk(m) == m.id - 1 \in lo..hi IN SelectSeq(out, InChunk)

FirstCallDone == pc = "done" /\ pass = 1

\* C1: a chunk closes at index i exactly when message i is an assistant
\* message without tool calls, message i+1 exists and message i+1 is a user
\* message whose is_reflect flag is absent or false; no other index closes.
C1_ClosesExactlyAtTurnEnds ==
    closed_at = {i \in 0..(current_index - 1) : ClosesAt(messages, i)}

C1_Witness ==
    /\ FirstCallDone
    /\ closed_at # {}
    /\ \E i \in 0..(Len(messages) - 2) :
          /\ i \notin closed_at
          /\ messages[i + 1].type = "ai"
          /\ messages[i + 1].tool_calls > 0
          /\ IsGenuineUser(messages[i + 2])

\* C2 (as claimed): the returned list is never longer than the list passed in.
C2_LengthNeverGrows ==
    pc = "done" => Len(result) <= Len(messages)

\* C3 (as claimed): when a chunk of length 1 closes, its single message
\* appears exactly once in the output.
C3_SingletonChunkEmittedOnce ==
    FirstCallDone =>
        \A i \in closed_at :
            ChunkStart(i) = i => Len(FromChunk(result, i, i)) = 1

\* C4: a closed chunk of length at least 2 contributes exactly its first and
\* its last message, in that order, and none of its interior messages.
C4_ClosedChunkGivesFirstAndLast ==
    FirstCallDone =>
        \A i \in closed_at :
            LET s == ChunkStart(i) IN
            i - s + 1 >= 2 =>
                FromChunk(result, s, i) = <<messages[s + 1], messages[i + 1]>>

C4_Witness ==
    /\ FirstCallDone
    /\ \E i \in closed_at :
          /\ i - ChunkStart(i) + 1 >= 3
          /\ Len(FromChunk(result, ChunkStart(i), i)) = 2

C6_OpenChunkPassedThrough ==
    pc = "done" =>
        LET last == IF closed_at = {} THEN -1 ELSE Max(closed_at)
            tail == SubSeq(messages, last + 2, Len(messages))
        IN  /\ Len(result) >= Len(tail)
            /\ SubSeq(result, Len(result) - Len(tail) + 1, Len(result)) = tail
            /\ closed_at = {} => result = messages

C6_Witness ==
    /\ FirstCallDone
    /\ closed_at # {}
    /\ Len(messages) - (Max(closed_at) + 1) >= 2

\* C7: an assistant message directly followed by a reflection-marked user
\* message is never a closure point; both messages sit in the same chunk, and
\* that chunk closes, if at all, at a later assistant message without tool
\* calls that is followed by a non-reflection user message.
C7_ReflectionNeverSplits ==
    \A i \in 0..(current_index - 1) :
        ( /\ messages[i + 1].type = "ai"
          /\ i + 1 < Len(messages)
          /\ messages[i + 2].type = "human"
          /\ messages[i + 2].is_reflect = "true" )
        => /\ i \notin closed_at
           /\ (pc = "loop" /\ current_index = i + 2) =>
                 /\ Len(current_chunk) >= 2
                 /\ current_chunk[Len(current_chunk) - 1] = messages[i + 1]
                 /\ current_chunk[Len(current_chunk)] = messages[i + 2]
           /\ \A c \in closed_at :
                 (c >= i /\ ChunkStart(c) <= i) =>
                     /\ c >= i + 2
                     /\ IsFinalAssistant(messages[c + 1])
                     /\ c + 1 < Len(messages)
                     /\ IsGenuineUser(messages[c + 2])

C7_Witness ==
    /\ FirstCallDone
    /\ \E i \in 0..(Len(messages) - 2) :
          /\ IsFinalAssistant(messages[i + 1])
          /\ messages[i + 2].type = "human"
          /\ messages[i + 2].is_reflect = "true"
          /\ \E c \in closed_at : c >= i + 2 /\ ChunkStart(c) <= i

\* C8: filtering the output of filter_conversation again returns it unchanged.
C8_Idempotent ==
    (pc = "done" /\ pass = 2) => result = first_result

C8_Witness ==
    /\ pc = "done"
    /\ pass = 2
    /\ closed_at # {}
    /\ \E j \in 1..(Len(result) - 1) : result[j + 1].id > result[j].id + 1

-----------------------------------------------------------------------------
(* Properties of find_nearby_toilets *)

Min(a, b) == IF a < b THEN a ELSE b

\* Distance of a table row to the point of the last call
DistToQuery(row) == haversine(query.lat, query.lon, row.lat, row.lon)

\* The table row a returned row was taken from
TableRow(r) == [id |-> r.id, lat |-> r.lat, lon |-> r.lon]

ReturnedIds == {nearby[j].id : j \in 1..Len(nearby)}

\* C9: the call returns exactly min(M, top_n) records, each a record of the
\* table, by non-decreasing distance to the query point, no record left out
\* being strictly closer than a returned one; an empty table gives an empty
\* result.
C9_NearestTopN ==
    tpc = "returned" =>
        /\ Len(nearby) = Min(Len(toilet_df), query.top_n)
        /\ Cardinality(ReturnedIds) = Len(nearby)
        /\ \A j \in 1..Len(nearby) :
              /\ nearby[j].id \in 1..Len(toilet_df)
              /\ TableRow(nearby[j]) = toilet_df[nearby[j].id]
        /\ \A j, k \in 1..Len(nearby) :
              j < k => DistToQuery(nearby[j]) <= DistToQuery(nearby[k])
        /\ \A i \in 1..Len(toilet_df) :
              i \notin ReturnedIds =>
                 \A j \in 1..Len(nearby) :
                    DistToQuery(toilet_df[i]) >= DistToQuery(nearby[j])
        /\ toilet_df = <<>> => nearby = <<>>

\* The scenario "distances 50, 10, 200 with top_n = 2": second row nearest,
\* first row next, third row farthest and cut off.
C9_Witness ==
    /\ tpc = "returned"
    /\ Len(toilet_df) = 3
    /\ query.top_n = 2
    /\ DistToQuery(toilet_df[2]) < DistToQuery(toilet_df[1])
    /\ DistToQuery(toilet_df[1]) < DistToQuery(toilet_df[3])
    /\ Len(nearby) = 2
    /\ nearby[1].id = 2
    /\ nearby[2].id = 1

StableOrder ==
    LET n == Len(toilet_df) IN
    CHOOSE s \in [1..n -> 1..n] :
        \A i, j \in 1..n :
            i < j =>
               \/ DistToQuery(toilet_df[s[i]]) < DistToQuery(toilet_df[s[j]])
               \/ /\ DistToQuery(toilet_df[s[i]]) = DistToQuery(toilet_df[s[j]])
                  /\ s[i] < s[j]

\* Distances of the first top_n rows of the stable order
StableDistances ==
    [j \in 1..Min(Len(toilet_df), query.top_n) |->
        DistToQuery(toilet_df[StableOrder[j]])]

-----------------------------------------------------------------------------
(* Properties of the webhook *)

IsReplyCall(e) == e.op = "reply"

IsSubmitCall(e) == e.op = "submit"

RepliesOf(calls) == SelectSeq(calls, IsReplyCall)

SubmitsOf(calls) == SelectSeq(calls, IsSubmitCall)

AllCallsSucceeded(calls) == \A i \in 1..Len(calls) : calls[i].ok

EventHandled == handled.kind # "none"

\* This step ran a handler on one event
HandlerStep == http.phase = "handling" /\ http'.events = http.events + 1

\* C11 (as claimed): a request whose signature verifies is answered 200
\* whatever its events did, and 400 is answered exactly when the signature
\* does not verify.
C11_CallbackAnswers200Or400 ==
    http.phase = "responded" =>
        IF http.sig_ok THEN http.status = 200 ELSE http.status = 400

\* C12 (as claimed): whatever the per-user state, with every outbound call
\* succeeding, the handler ends without an exception and has sent the user
\* a message.
C12_HandlerNeverAborts ==
    (EventHandled /\ AllCallsSucceeded(handled.calls)) =>
        /\ ~handled.raised
        /\ RepliesOf(handled.calls) # <<>>

\* C13: on the model path the handler attempts the acknowledgment reply,
\* then submits exactly one task and returns, also when the reply failed;
\* on every other path it submits nothing.
C13_ModelCallOffloaded ==
    [][ HandlerStep =>
          LET calls == handled'.calls
              u == handled'.user
              modelPath ==
                 \/ handled'.kind = "text" /\ handled'.text = "free_text"
                 \/ /\ handled'.kind = "location"
                    /\ user_state[u] # "awaiting_toilet"
          IN  IF modelPath
              THEN /\ Len(SubmitsOf(calls)) = 1
                   /\ calls[Len(calls)].op = "submit"
                   /\ Len(RepliesOf(calls)) = 1
                   /\ ~handled'.raised
                   /\ http'.phase = "handling"
              ELSE SubmitsOf(calls) = <<>> ]_vars

C13_Witness ==
    /\ handled.kind = "location"
    /\ Len(handled.calls) = 3
    /\ handled.calls[1].op = "reply"
    /\ handled.calls[1].text = "ack_parking"
    /\ ~handled.calls[1].ok
    /\ handled.calls[3].op = "submit"
    /\ user_state[handled.user] = "None"

\* C16 (as claimed): while one event is handled, reply_message is invoked
\* with its reply token at most once.
C16_ReplyTokenUsedOnce ==
    EventHandled =>
        LET WithToken(e) == e.op = "reply" /\ e.token = handled.token
        IN  Len(SelectSeq(handled.calls, WithToken)) <= 1

\* C17: what start-up could not load stays unavailable: the sheet and the
\* table never change availability, nothing is appended without a sheet,
\* "查看排行" then answers that the ratings store cannot be reached, and a
\* restroom lookup on the empty table answers that the data cannot be loaded.
C17_DegradedForLife ==
    [][ /\ sheet'.available = sheet.available
        /\ toilet_df' = toilet_df
        /\ ~sheet.available => sheet'.rows = 0
        /\ HandlerStep =>
             LET calls == handled'.calls
                 u == handled'.user
                 lookup ==
                    \/ /\ handled'.kind = "text"
                       /\ handled'.text = "toilet_same"
                       /\ user_location[u] # <<>>
                    \/ /\ handled'.kind = "location"
                       /\ user_state[u] = "awaiting_toilet"
                 OnlyAnswer(text) ==
                    /\ Len(calls) = 1
                    /\ calls[1].op = "reply"
                    /\ calls[1].text = text
             IN  /\ (~sheet.available /\ handled'.text = "ranking")
                        => OnlyAnswer("ranking_unavailable")
                 /\ (~sheet.available /\ handled'.text = "rate_score")
                        => \A i \in 1..Len(calls) :
                              calls[i].op # "append_row"
                 /\ (toilet_df = <<>> /\ lookup)
                        => OnlyAnswer("toilet_data_unavailable") ]_vars

C17_Witness ==
    /\ ~sheet.available
    /\ toilet_df = <<>>
    /\ http.events = 2
    /\ handled.kind = "location"
    /\ Len(handled.calls) = 1
    /\ handled.calls[1].text = "toilet_data_unavailable"

-----------------------------------------------------------------------------
(* Properties of the worker pool *)

\* C18: at most 8 tasks run at a time; a task submitted while 8 run waits in
\* the queue and no submitted task is lost; and a handler can always submit
\* and go on, however long the running model calls take.
C18_BoundedPool ==
    /\ Cardinality(executor.running) <= 8
    /\ AllTasks(executor) = 1..Cardinality(AllTasks(executor))
    /\ Len(executor.queue) + Cardinality(executor.running)
          + Cardinality(executor.done) = Cardinality(AllTasks(executor))
    /\ Cardinality(AllTasks(executor)) < MaxTasks => ENABLED PoolSubmit

C18_Witness ==
    /\ Cardinality(executor.running) = 8
    /\ Len(executor.queue) >= 1
    /\ executor.done # {}

-----------------------------------------------------------------------------
(* Properties of call_llm *)

\* t is body with only blanks and newlines removed, and only at the two ends
IsStrippedFormOf(t, body) ==
    /\ t # <<>> => ~IsSpace(t[1]) /\ ~IsSpace(t[Len(t)])
    /\ \E lead \in 0..Len(body) :
          /\ lead + Len(t) <= Len(body)
          /\ t = SubSeq(body, lead + 1, lead + Len(t))
          /\ \A i \in 1..Len(body) :
                (i <= lead \/ i > lead + Len(t)) => IsSpace(body[i])

-----------------------------------------------------------------------------
(* Properties of the session identifier *)

\* The hour since the epoch a timestamp falls in
HourOf(ts) == ts \div TicksPerHour

\* Asia/Taipei wall-clock hours around the turn of the year 2024/2025
TaipeiHourText(h) ==
    CASE h = 482126 -> <<"2","0","2","4","1","2","3","1","2","2">>
      [] h = 482127 -> <<"2","0","2","4","1","2","3","1","2","3">>
      [] h = 482128 -> <<"2","0","2","5","0","1","0","1","0","0">>
      [] h = 482129 -> <<"2","0","2","5","0","1","0","1","0","1">>
      [] OTHER -> <<>>

IdNamesUserAndHour(id, e) ==
    TaipeiHourText(HourOf(e.timestamp)) # <<>> =>
        id = e.user \o <<":">> \o TaipeiHourText(HourOf(e.timestamp))

-----------------------------------------------------------------------------
(* Properties of the parking tool provider *)

\* C15: no upstream-call failure (token request not 200, missing access
\* token, data request not 200, non-JSON body, missing credentials) leaves
\* find_parking as an exception; each is converted to a result.
C15_FindParkingNeverRaises == parking.pc # "raised"

\* A record that has a usable coordinate within the radius of the centre
InsideRadius(record) ==
    /\ record.pos # <<>>
    /\ Abs(record.pos[1] - parking.latitude) * MicronsPerMicrodegree
          <= parking.radius * MicronsPerMetre

\* What is shown for an upstream availability value
Shown(value) == IF value = None THEN Unknown ELSE value

OffStreetUpstream(id) ==
    LET obj == parking.avail_index[id]
    IN  IF obj.AvailableSpaces # None THEN obj.AvailableSpaces
        ELSE obj.AvailableCar

ItemsOfType(type) == SelectSeq(parking.results, LAMBDA item : item.type = type)

RadiusAccepted == parking.radius >= 1 /\ parking.radius <= 1000

\* The radius part of C20: a request outside 1..1000 is rejected before any
\* upstream call and returns no item
OnlyAcceptedRadiusServed ==
    parking.pc # "request" =>
        IF RadiusAccepted THEN parking.pc # "rejected"
        ELSE /\ parking.pc = "rejected"
             /\ parking.calls = 0
             /\ parking.results = <<>>

\* The item part of C20
ItemsInsideRadiusAndTagged ==
    LET off == ItemsOfType("OffStreet")
        on == ItemsOfType("OnStreet")
    IN  /\ \A i \in DOMAIN parking.results :
              parking.results[i].type \in {"OffStreet", "OnStreet"}
        /\ \A i \in DOMAIN off :
              \E j \in DOMAIN parking.carparks :
                 /\ parking.carparks[j].id = off[i].id
                 /\ InsideRadius(parking.carparks[j])
                 /\ off[i].available_spaces =
                       Shown(OffStreetUpstream(off[i].id))
        /\ \A i \in DOMAIN on :
              \E j \in DOMAIN parking.onstreet :
                 /\ parking.onstreet[j].id = on[i].id
                 /\ InsideRadius(parking.onstreet[j])
                 /\ on[i].available_spaces =
                       Shown(parking.onstreet[j].AvailableSpaces)
        /\ Len(off) <= Cardinality({j \in DOMAIN parking.carparks :
                                       InsideRadius(parking.carparks[j])})
        /\ Len(on) <= Cardinality({j \in DOMAIN parking.onstreet :
                                      InsideRadius(parking.onstreet[j])})

\* C20 as stated: only a radius of 1..1000 metres is accepted, and every
\* item of every answer is an off-street or on-street upstream record
\* within the radius, records beyond it or without a coordinate being
\* excluded, tagged OffStreet or OnStreet and carrying the upstream
\* available-space value or the unknown marker.
C20_EveryAnswerInsideRadius ==
    /\ OnlyAcceptedRadiusServed
    /\ parking.pc = "returned" => ItemsInsideRadiusAndTagged

\* C20 amended: the same, for every answer that is not the stub backend's
\* fixed demonstration answer.
C20_TdxAnswerInsideRadius ==
    /\ OnlyAcceptedRadiusServed
    /\ (parking.pc = "returned" /\ ~parking.stub) =>
          ItemsInsideRadiusAndTagged

C20_Witness ==
    /\ parking.pc = "returned"
    /\ ~parking.stub
    /\ parking.radius = 1
    /\ \E j \in DOMAIN parking.carparks :
          parking.carparks[j].pos = <<parking.latitude - 9>>
    /\ \E j \in DOMAIN parking.carparks :
          parking.carparks[j].pos = <<parking.latitude + 8>>
    /\ Len(parking.onstreet) = 1
    /\ parking.onstreet[1].pos = <<>>
    /\ Len(parking.results) = 1
    /\ parking.results[1].type = "OffStreet"
    /\ parking.results[1].available_spaces = Unknown

-----------------------------------------------------------------------------
(* Properties of handle_location's bookkeeping *)

AwaitingLocation == {"awaiting_parking", "awaiting_toilet"}

\* C23 (as claimed): once handle_location has processed a location event of
\* a user, on every path that user's user_state entry is no awaiting-location
\* value and user_location holds the event's coordinates; a restroom request
\* awaiting a location is consumed by that one event even when sending the
\* restroom list fails.
C23_LocationEventConsumesRequest ==
    handled.kind = "location" =>
        /\ user_state[handled.user] \notin AwaitingLocation
        /\ user_location[handled.user] = handled.location

-----------------------------------------------------------------------------
(* Properties of concurrent deliveries *)

SawParking == {i \in ThreadIds : threads[i].saw = "awaiting_parking"}

AllHandlersEnded ==
    \A i \in ThreadIds : threads[i].pc \in {"done", "raised"}

\* C22: nothing synchronises the handlers of one user: while one handler is
\* between reading the awaiting-parking value and clearing it, another
\* handler's read is not held back; every handler that read the awaiting
\* value serves the request, so when two read it before either cleared it,
\* the one pending request ends in two submitted model calls.
C22_PendingRequestServedPerReader ==
    /\ \A i \in ThreadIds :
          threads[i].pc = "check_parking" => ENABLED CheckParking(i)
    /\ \A i \in SawParking :
          threads[i].pc = "done" => threads[i].served = "parking"
    /\ AllHandlersEnded =>
          Cardinality({i \in ThreadIds :
                          threads[i].served \in {"parking", "other"}})
             = Len(executor.queue)

C22_Witness ==
    /\ AllHandlersEnded
    /\ Cardinality(SawParking) = 2
    /\ Len(executor.queue) = 2
    /\ user_state[RaceUser] = "None"

-----------------------------------------------------------------------------
(* Properties of process_and_push_text *)

ModelCallFailed ==
    \/ task.upstream.kind \in TransportFailures
    \/ task.upstream.status >= 400

TaskEnded == task.pc \in {"done", "raised"}

\* C24: a started task terminates, never by an exception, after exactly
\* one push attempt to the originating user, its steps being the model
\* call, the normalization and the push in this order; when the model call
\* failed or timed out the text pushed is the apology, and a failing push
\* ends the task like a successful one.
C24_TaskPushesOnceAndEnds ==
    /\ [](/\ task.pc # "raised"
          /\ Len(task.pushes) <= 1
          /\ task.pc = "done" =>
               /\ task.log = <<"call_llm", "normalize_llm_text", "push">>
               /\ Len(task.pushes) = 1
               /\ task.pushes[1].to = task.user
               /\ ModelCallFailed => task.pushes[1].text = Apology)
    /\ <>(task.pc = "done")

C24_Witness ==
    /\ task.pc = "done"
    /\ task.upstream.kind = "ReadTimeout"
    /\ task.pushes = <<[to |-> task.user, text |-> Apology, ok |-> FALSE]>>

=============================================================================
